---- MODULE Spec2Model ----
\* Fan-out delivery of activities/models/fan_out.py: the FanOut job entity, the
\* FanOutStates state graph and its handler handle_new, stepped at the handler's
\* await points, together with the collaborators the handler calls (the
\* scheduler that invokes it, the timeline store, the signed transport).
EXTENDS Integers, Sequences, FiniteSets

VARIABLES
    fan_outs,          \* FanOut rows: id -> [type, identity, subject_post, subject_post_interaction, state]
    posts,             \* Post rows: id -> [author, in_reply_to, mentions]
    outbound_follows,  \* Identity.outbound_follows: identity -> set of identity ids
    timeline,          \* TimelineEvent rows, counted: event -> number of rows
    requests,          \* every signed request issued so far, in order
    attempt,           \* per job: the position of the running handle_new call and what it did
    timeline_initial   \* the TimelineEvent rows before any dispatch (never modified)

vars == <<fan_outs, posts, outbound_follows, timeline, requests, attempt, timeline_initial>>

\* ---------------------------------------------------------------- bounds

\* How many times the scheduler invokes handle_new for one job.
MaxAttempts == 2

\* ---------------------------------------------------------------- data

None == "None"

\* Identities: alice and bob are hosted locally, carol is remote.
Identities == {"alice", "bob", "carol"}

local ==
    [i \in Identities |-> i \in {"alice", "bob"}]

inbox_uri ==
    [i \in Identities |-> IF local[i] THEN None ELSE "https://remote.example/" \o i \o "/inbox"]

Posts == {"P1", "P2"}

Interactions == {"I1", "I2"}

\* PostInteraction.identity: the identity that performed the interaction.
interaction_identity ==
    [i \in Interactions |-> "bob"]

\* FanOut.Types, and one value of the type column that is none of its choices
\* (the column is a plain CharField).
Types == {"post", "post_edited", "post_deleted", "interaction", "undo_interaction"}

UnknownType == "follow"

\* FanOutStates: the two states and the declared transition.
States == {"new", "sent"}

Transitions == {<<"new", "sent">>}

\* The rows the FanOut table can hold: both subject columns are nullable and
\* nothing ties them to the type column.
FanOutRows ==
    [type : Types \cup {UnknownType},
     identity : {"alice", "carol"},
     subject_post : {None, "P1"},
     subject_post_interaction : {None, "I1"},
     state : {"new"}]

\* TimelineEvent rows: one recipient, a visibility reason, and the post or the
\* interaction the entry references.
PostEvent(i, p) ==
    [identity |-> i, type |-> "post", subject_post |-> p, subject_post_interaction |-> None]

MentionedEvent(i, p) ==
    [identity |-> i, type |-> "mentioned", subject_post |-> p, subject_post_interaction |-> None]

InteractionEvent(i, x) ==
    [identity |-> i, type |-> "interaction", subject_post |-> None, subject_post_interaction |-> x]

Events ==
    {PostEvent(i, p) : i \in {"alice", "bob"}, p \in Posts}
        \cup {MentionedEvent(i, p) : i \in {"alice", "bob"}, p \in Posts}
        \cup {InteractionEvent(i, x) : i \in {"alice", "bob"}, x \in Interactions}

\* ---------------------------------------------------------------- the timeline store

\* add_event, were it a plain create: a row is added on every call.
add_event_always(tl, e) ==
    [tl EXCEPT ![e] = @ + 1]

\* get_or_create: a row is created only when no identical row exists.
add_event(tl, e) ==
    IF tl[e] = 0 THEN [tl EXCEPT ![e] = 1] ELSE tl

\* TimelineEvent.add_post(identity, post)
add_post(tl, i, p) ==
    add_event(tl, PostEvent(i, p))

\* TimelineEvent.add_mentioned(identity, post)
add_mentioned(tl, i, p) ==
    add_event(tl, MentionedEvent(i, p))

\* TimelineEvent.add_post_interaction(identity, interaction)
add_post_interaction(tl, i, x) ==
    add_event(tl, InteractionEvent(i, x))

\* delete_post_interaction, were it to delete every interaction row of the identity.
delete_post_interaction_of_identity(tl, i, x) ==
    [e \in Events |->
        IF e.identity = i /\ e.type = "interaction" THEN 0 ELSE tl[e]]

\* TimelineEvent.delete_post_interaction(identity, interaction)
delete_post_interaction(tl, i, x) ==
    [e \in Events |->
        IF e.identity = i /\ e.subject_post_interaction = x THEN 0 ELSE tl[e]]

\* delete_post_events, were the filter to name the post type as well.
delete_post_events_of_type_post(tl, i, p) ==
    [e \in Events |->
        IF e.identity = i /\ e.subject_post = p /\ e.type = "post" THEN 0 ELSE tl[e]]

\* delete_post_events, were the filter to leave out the identity.
delete_post_events_any_identity(tl, i, p) ==
    [e \in Events |->
        IF e.subject_post = p THEN 0 ELSE tl[e]]

\* TimelineEvent.objects.filter(identity=..., subject_post=...).adelete()
delete_post_events(tl, i, p) ==
    [e \in Events |->
        IF e.identity = i /\ e.subject_post = p THEN 0 ELSE tl[e]]

\* ---------------------------------------------------------------- handle_new: classification

\* Cases, were the remote create pattern to accept edited posts as well.
CasesCreateTakesEdited ==
    << [types |-> {"post", "post_edited"}, local |-> TRUE,  branch |-> "local_post"],
       [types |-> {"post", "post_edited"}, local |-> FALSE, branch |-> "remote_post"],
       [types |-> {"post_edited"},         local |-> FALSE, branch |-> "remote_post_edited"],
       [types |-> {"post_deleted"},        local |-> TRUE,  branch |-> "local_post_deleted"],
       [types |-> {"post_deleted"},        local |-> FALSE, branch |-> "remote_post_deleted"],
       [types |-> {"interaction"},         local |-> TRUE,  branch |-> "local_interaction"],
       [types |-> {"interaction"},         local |-> FALSE, branch |-> "remote_interaction"],
       [types |-> {"undo_interaction"},    local |-> TRUE,  branch |-> "local_undo_interaction"],
       [types |-> {"undo_interaction"},    local |-> FALSE, branch |-> "remote_undo_interaction"] >>

\* Cases, were the match statement to have no pattern for undo_interaction.
CasesWithoutUndo ==
    << [types |-> {"post", "post_edited"}, local |-> TRUE,  branch |-> "local_post"],
       [types |-> {"post"},                local |-> FALSE, branch |-> "remote_post"],
       [types |-> {"post_edited"},         local |-> FALSE, branch |-> "remote_post_edited"],
       [types |-> {"post_deleted"},        local |-> TRUE,  branch |-> "local_post_deleted"],
       [types |-> {"post_deleted"},        local |-> FALSE, branch |-> "remote_post_deleted"],
       [types |-> {"interaction"},         local |-> TRUE,  branch |-> "local_interaction"],
       [types |-> {"interaction"},         local |-> FALSE, branch |-> "remote_interaction"] >>

\* Cases, were the remote create pattern to test for a local recipient and to
\* come first.
CasesRemoteCreateForLocal ==
    << [types |-> {"post"},                local |-> TRUE,  branch |-> "remote_post"],
       [types |-> {"post", "post_edited"}, local |-> TRUE,  branch |-> "local_post"],
       [types |-> {"post_edited"},         local |-> FALSE, branch |-> "remote_post_edited"],
       [types |-> {"post_deleted"},        local |-> TRUE,  branch |-> "local_post_deleted"],
       [types |-> {"post_deleted"},        local |-> FALSE, branch |-> "remote_post_deleted"],
       [types |-> {"interaction"},         local |-> TRUE,  branch |-> "local_interaction"],
       [types |-> {"interaction"},         local |-> FALSE, branch |-> "remote_interaction"],
       [types |-> {"undo_interaction"},    local |-> TRUE,  branch |-> "local_undo_interaction"],
       [types |-> {"undo_interaction"},    local |-> FALSE, branch |-> "remote_undo_interaction"] >>

\* The case patterns of the match statement, in source order: the types a
\* pattern accepts, the locality it accepts, and the block it selects.
Cases ==
    << [types |-> {"post", "post_edited"}, local |-> TRUE,  branch |-> "local_post"],
       [types |-> {"post"},                local |-> FALSE, branch |-> "remote_post"],
       [types |-> {"post_edited"},         local |-> FALSE, branch |-> "remote_post_edited"],
       [types |-> {"post_deleted"},        local |-> TRUE,  branch |-> "local_post_deleted"],
       [types |-> {"post_deleted"},        local |-> FALSE, branch |-> "remote_post_deleted"],
       [types |-> {"interaction"},         local |-> TRUE,  branch |-> "local_interaction"],
       [types |-> {"interaction"},         local |-> FALSE, branch |-> "remote_interaction"],
       [types |-> {"undo_interaction"},    local |-> TRUE,  branch |-> "local_undo_interaction"],
       [types |-> {"undo_interaction"},    local |-> FALSE, branch |-> "remote_undo_interaction"] >>

\* The patterns a (type, local) pair matches.
MatchingCases(type, loc) ==
    {k \in 1..Len(Cases) : type \in Cases[k].types /\ loc = Cases[k].local}

\* Match, were the default case to run the last block instead of raising.
MatchDefaultsToLastBlock(type, loc) ==
    IF MatchingCases(type, loc) = {}
    THEN Cases[Len(Cases)].branch
    ELSE LET first == CHOOSE k \in MatchingCases(type, loc) :
                          \A m \in MatchingCases(type, loc) : k <= m
         IN  Cases[first].branch

\* match: the first matching pattern's block, or the default case.
Match(type, loc) ==
    IF MatchingCases(type, loc) = {}
    THEN "unclassified"
    ELSE LET first == CHOOSE k \in MatchingCases(type, loc) :
                          \A m \in MatchingCases(type, loc) : k <= m
         IN  Cases[first].branch

RemoteBranches ==
    {"remote_post", "remote_post_edited", "remote_post_deleted",
     "remote_interaction", "remote_undo_interaction"}

\* The subject column each block dereferences.
SubjectOf(branch, row) ==
    IF branch \in {"local_post", "remote_post", "remote_post_edited",
                   "local_post_deleted", "remote_post_deleted"}
    THEN row.subject_post
    ELSE row.subject_post_interaction

\* Serialiser, were the edited-post block to call the create serialiser.
SerialiserEditedAsCreate(branch) ==
    CASE branch = "remote_post" -> "to_create_ap"
      [] branch = "remote_post_edited" -> "to_create_ap"
      [] branch = "remote_post_deleted" -> "to_delete_ap"
      [] branch = "remote_interaction" -> "to_ap"
      [] branch = "remote_undo_interaction" -> "to_undo_ap"

\* The document each remote block builds: which serialiser it calls on the subject.
Serialiser(branch) ==
    CASE branch = "remote_post" -> "to_create_ap"
      [] branch = "remote_post_edited" -> "to_update_ap"
      [] branch = "remote_post_deleted" -> "to_delete_ap"
      [] branch = "remote_interaction" -> "to_ap"
      [] branch = "remote_undo_interaction" -> "to_undo_ap"

\* core.ld.canonicalise of a serialised document.
canonicalise(doc) ==
    [canonical |-> TRUE, document |-> doc]

Body(branch, subject) ==
    canonicalise([built_by |-> Serialiser(branch), subject |-> subject])

\* The identity whose signed_request each remote block calls.
Signer(branch, subject) ==
    IF branch \in {"remote_post", "remote_post_edited", "remote_post_deleted"}
    THEN posts[subject].author
    ELSE interaction_identity[subject]

\* Truth value of a nullable string column in an if statement: None and the
\* empty string are false.
Truthy(v) == v \notin {None, ""}

\* AddDecision, were a reply shown when the author or a mentioned identity is followed.
AddDecisionEither(post, followed) ==
    IF Truthy(post.in_reply_to)
    THEN (post.author \in followed) \/ ((post.mentions \cap followed) # {})
    ELSE TRUE

AddDecision(post, followed) ==
    IF Truthy(post.in_reply_to)
    THEN (post.author \in followed) /\ ((post.mentions \cap followed) # {})
    ELSE TRUE

\* IsMentioned, were the check to ask only whether the post mentions anyone.
IsMentionedAnyone(recipient, mentioned) ==
    mentioned # {}

\* The mention check of the local post block.
IsMentioned(recipient, mentioned) ==
    recipient \in mentioned

\* ---------------------------------------------------------------- handle_new: one call

NoError == [exc |-> "none", args |-> <<>>]

\* No handle_new call has been made for the job yet. n counts the calls made,
\* done the timeline operations and requests all calls performed so far; found
\* is the answer of a row lookup whose insertion is still to follow.
Idle ==
    [pc |-> "idle", n |-> 0, branch |-> None, subject |-> None, mentioned |-> {},
     followed |-> {}, found |-> None, effects |-> <<>>, error |-> NoError, result |-> None,
     fault |-> FALSE, done |-> 0]

\* The value handle_new returns after the match statement.
ReturnValue == "sent"

\* return cls.sent: the block ran to its end, the call ends with ReturnValue.
Returned(a) ==
    [a EXCEPT !.pc = "returned", !.result = ReturnValue]

\* Raise, were the handler to catch the exception and fall through to its
\* return statement.
RaiseSwallowed(a, exc, args) ==
    Returned(a)

\* Raise, were the handler to catch the exception and return nothing.
RaiseReturnsNone(a, exc, args) ==
    [a EXCEPT !.pc = "returned"]

\* An exception raised inside handle_new: no block catches it, the call ends.
Raise(a, exc, args) ==
    [a EXCEPT !.pc = "raised", !.error = [exc |-> exc, args |-> args]]

\* A step of the call failed (the flag records that it did).
Failed(a, exc, args) ==
    [Raise(a, exc, args) EXCEPT !.fault = TRUE]

Effect(op, i, subject) ==
    [op |-> op, identity |-> i, subject |-> subject]

Did(a, op, i, subject) ==
    [a EXCEPT !.effects = Append(@, Effect(op, i, subject)), !.done = @ + 1]

JobIds == DOMAIN fan_outs

Running(j) ==
    attempt[j].pc \in {"matched", "loaded", "follows_read", "post_added"}

\* ---------------------------------------------------------------- actions

\* FanOut.objects.create: upstream code stores a job, one of the given rows,
\* in state new. The specifications here follow one job from its creation.
Create(rows) ==
    /\ fan_outs = <<>>
    /\ \E row \in rows :
          /\ fan_outs' = Append(fan_outs, row)
          /\ attempt' = Append(attempt, Idle)
    /\ UNCHANGED <<posts, outbound_follows, timeline, requests, timeline_initial>>

\* Invoke, were the scheduler to call the handler of a job whatever its state.
InvokeWhateverState(j) ==
    /\ attempt[j].pc \in {"idle", "raised", "crashed", "committed"}
    /\ attempt[j].n < MaxAttempts
    /\ \E fetched \in BOOLEAN :
        LET a      == [Idle EXCEPT !.n = attempt[j].n + 1, !.done = attempt[j].done]
            row    == fan_outs[j]
            branch == Match(row.type, local[row.identity])
        IN  attempt' = [attempt EXCEPT ![j] =
                IF ~fetched
                THEN Failed(a, "DoesNotExist", <<>>)
                ELSE IF branch = "unclassified"
                THEN Failed(a, "ValueError", <<row.type, local[row.identity]>>)
                ELSE [a EXCEPT !.pc = "matched", !.branch = branch]]
    /\ UNCHANGED <<fan_outs, posts, outbound_follows, timeline, requests, timeline_initial>>

\* The scheduler calls handle_new for a job in state new that has no call in
\* progress. The call fetches the row with its relations and classifies it; a
\* row that cannot be fetched, or a pair no pattern matches, raises.
Invoke(j) ==
    /\ fan_outs[j].state = "new"
    /\ attempt[j].pc \in {"idle", "raised", "crashed"}
    /\ attempt[j].n < MaxAttempts
    /\ \E fetched \in BOOLEAN :
        LET a      == [Idle EXCEPT !.n = attempt[j].n + 1, !.done = attempt[j].done]
            row    == fan_outs[j]
            branch == Match(row.type, local[row.identity])
        IN  attempt' = [attempt EXCEPT ![j] =
                IF ~fetched
                THEN Failed(a, "DoesNotExist", <<>>)
                ELSE IF branch = "unclassified"
                THEN Failed(a, "ValueError", <<row.type, local[row.identity]>>)
                ELSE [a EXCEPT !.pc = "matched", !.branch = branch]]
    /\ UNCHANGED <<fan_outs, posts, outbound_follows, timeline, requests, timeline_initial>>

\* The first statement of every block: afetch_full() on the subject column the
\* block uses. A null column has no afetch_full; a fetch may fail.
LoadSubject(j) ==
    /\ attempt[j].pc = "matched"
    /\ \E fetched \in BOOLEAN :
        LET a       == attempt[j]
            subject == SubjectOf(a.branch, fan_outs[j])
        IN  attempt' = [attempt EXCEPT ![j] =
                IF subject = None
                THEN Failed(a, "AttributeError", <<>>)
                ELSE IF ~fetched
                THEN Failed(a, "DoesNotExist", <<>>)
                ELSE [a EXCEPT !.pc = "loaded", !.subject = subject]]
    /\ UNCHANGED <<fan_outs, posts, outbound_follows, timeline, requests, timeline_initial>>

\* Local post / post_edited: collect the post's mentions and await the read of
\* the recipient's follows.
LocalPostFollowed(j) ==
    /\ attempt[j].pc = "loaded"
    /\ attempt[j].branch = "local_post"
    /\ \E ok \in BOOLEAN :
        LET a         == attempt[j]
            recipient == fan_outs[j].identity
            post      == posts[a.subject]
            mentioned == post.mentions
            followed  == outbound_follows[recipient]
        IN  attempt' = [attempt EXCEPT ![j] =
                IF ~ok
                THEN Failed(a, "DatabaseError", <<>>)
                ELSE [a EXCEPT !.pc = "follows_read", !.mentioned = mentioned,
                               !.followed = followed]]
    /\ UNCHANGED <<fan_outs, posts, outbound_follows, timeline, requests, timeline_initial>>

\* Local post / post_edited: decide on what was read, and await add_post when
\* the decision says so.
LocalPostAdd(j) ==
    /\ attempt[j].pc = "follows_read"
    /\ \E ok \in BOOLEAN :
        LET a         == attempt[j]
            recipient == fan_outs[j].identity
            post      == posts[a.subject]
            add       == AddDecision([post EXCEPT !.mentions = a.mentioned], a.followed)
        IN  IF ~add
            THEN /\ attempt' = [attempt EXCEPT ![j] = [a EXCEPT !.pc = "post_added"]]
                 /\ UNCHANGED timeline
            ELSE IF ~ok
            THEN /\ attempt' = [attempt EXCEPT ![j] = Failed(a, "DatabaseError", <<>>)]
                 /\ UNCHANGED timeline
            ELSE /\ timeline' = add_post(timeline, recipient, a.subject)
                 /\ attempt' = [attempt EXCEPT ![j] =
                        [Did(a, "add_post", recipient, a.subject) EXCEPT !.pc = "post_added"]]
    /\ UNCHANGED <<fan_outs, posts, outbound_follows, requests, timeline_initial>>

\* Local post / post_edited, second half: the mention check.
LocalPostMentioned(j) ==
    /\ attempt[j].pc = "post_added"
    /\ \E ok \in BOOLEAN :
        LET a         == attempt[j]
            recipient == fan_outs[j].identity
        IN  IF ~IsMentioned(recipient, a.mentioned)
            THEN /\ attempt' = [attempt EXCEPT ![j] = Returned(a)]
                 /\ UNCHANGED timeline
            ELSE IF ~ok
            THEN /\ attempt' = [attempt EXCEPT ![j] = Failed(a, "DatabaseError", <<>>)]
                 /\ UNCHANGED timeline
            ELSE /\ timeline' = add_mentioned(timeline, recipient, a.subject)
                 /\ attempt' = [attempt EXCEPT ![j] =
                        Returned(Did(a, "add_mentioned", recipient, a.subject))]
    /\ UNCHANGED <<fan_outs, posts, outbound_follows, requests, timeline_initial>>

\* Local post_deleted: delete the recipient's timeline events of the post.
LocalPostDeleted(j) ==
    /\ attempt[j].pc = "loaded"
    /\ attempt[j].branch = "local_post_deleted"
    /\ \E ok \in BOOLEAN :
        LET a         == attempt[j]
            recipient == fan_outs[j].identity
        IN  IF ~ok
            THEN /\ attempt' = [attempt EXCEPT ![j] = Failed(a, "DatabaseError", <<>>)]
                 /\ UNCHANGED timeline
            ELSE IF local[recipient]
            THEN /\ timeline' = delete_post_events(timeline, recipient, a.subject)
                 /\ attempt' = [attempt EXCEPT ![j] =
                        Returned(Did(a, "delete_post_events", recipient, a.subject))]
            ELSE /\ attempt' = [attempt EXCEPT ![j] = Returned(a)]
                 /\ UNCHANGED timeline
    /\ UNCHANGED <<fan_outs, posts, outbound_follows, requests, timeline_initial>>

\* Local interaction: add the interaction's timeline event.
LocalInteraction(j) ==
    /\ attempt[j].pc = "loaded"
    /\ attempt[j].branch = "local_interaction"
    /\ \E ok \in BOOLEAN :
        LET a         == attempt[j]
            recipient == fan_outs[j].identity
        IN  IF ~ok
            THEN /\ attempt' = [attempt EXCEPT ![j] = Failed(a, "DatabaseError", <<>>)]
                 /\ UNCHANGED timeline
            ELSE /\ timeline' = add_post_interaction(timeline, recipient, a.subject)
                 /\ attempt' = [attempt EXCEPT ![j] =
                        Returned(Did(a, "add_post_interaction", recipient, a.subject))]
    /\ UNCHANGED <<fan_outs, posts, outbound_follows, requests, timeline_initial>>

\* Local undo_interaction: delete the interaction's timeline events.
LocalUndoInteraction(j) ==
    /\ attempt[j].pc = "loaded"
    /\ attempt[j].branch = "local_undo_interaction"
    /\ \E ok \in BOOLEAN :
        LET a         == attempt[j]
            recipient == fan_outs[j].identity
        IN  IF ~ok
            THEN /\ attempt' = [attempt EXCEPT ![j] = Failed(a, "DatabaseError", <<>>)]
                 /\ UNCHANGED timeline
            ELSE /\ timeline' = delete_post_interaction(timeline, recipient, a.subject)
                 /\ attempt' = [attempt EXCEPT ![j] =
                        Returned(Did(a, "delete_post_interaction", recipient, a.subject))]
    /\ UNCHANGED <<fan_outs, posts, outbound_follows, requests, timeline_initial>>

\* SignedRequest, were the block to address the signer's own inbox.
SignedRequestToSigner(j, a, delivered) ==
    [job |-> j, attempt |-> a.n,
     signer |-> Signer(a.branch, a.subject),
     method |-> "post",
     uri |-> inbox_uri[Signer(a.branch, a.subject)],
     body |-> Body(a.branch, a.subject),
     ok |-> delivered]

\* The signed request of a remote block, as the block issues it.
SignedRequest(j, a, delivered) ==
    [job |-> j, attempt |-> a.n,
     signer |-> Signer(a.branch, a.subject),
     method |-> "post",
     uri |-> inbox_uri[fan_outs[j].identity],
     body |-> Body(a.branch, a.subject),
     ok |-> delivered]

\* RemoteDeliver, were a job's request to wait until every job created before
\* it is sent.
RemoteDeliverInCreationOrder(j) ==
    /\ attempt[j].pc = "loaded"
    /\ attempt[j].branch \in RemoteBranches
    /\ \A i \in JobIds : i < j => fan_outs[i].state = "sent"
    /\ \E built \in BOOLEAN, delivered \in BOOLEAN :
        LET a == attempt[j]
        IN  IF ~built
            THEN /\ attempt' = [attempt EXCEPT ![j] = Failed(a, "SerialiseError", <<>>)]
                 /\ UNCHANGED requests
            ELSE /\ requests' = Append(requests, SignedRequest(j, a, delivered))
                 /\ attempt' = [attempt EXCEPT ![j] =
                        IF delivered
                        THEN Returned(Did(a, "signed_request", fan_outs[j].identity, a.subject))
                        ELSE Failed(Did(a, "signed_request", fan_outs[j].identity, a.subject),
                                    "RequestError", <<>>)]
    /\ UNCHANGED <<fan_outs, posts, outbound_follows, timeline, timeline_initial>>

\* The five remote blocks: build the document, then one signed request to the
\* recipient's inbox. Building may fail (no request is issued then); the
\* request may fail.
RemoteDeliver(j) ==
    /\ attempt[j].pc = "loaded"
    /\ attempt[j].branch \in RemoteBranches
    /\ \E built \in BOOLEAN, delivered \in BOOLEAN :
        LET a == attempt[j]
        IN  IF ~built
            THEN /\ attempt' = [attempt EXCEPT ![j] = Failed(a, "SerialiseError", <<>>)]
                 /\ UNCHANGED requests
            ELSE /\ requests' = Append(requests, SignedRequest(j, a, delivered))
                 /\ attempt' = [attempt EXCEPT ![j] =
                        IF delivered
                        THEN Returned(Did(a, "signed_request", fan_outs[j].identity, a.subject))
                        ELSE Failed(Did(a, "signed_request", fan_outs[j].identity, a.subject),
                                    "RequestError", <<>>)]
    /\ UNCHANGED <<fan_outs, posts, outbound_follows, timeline, timeline_initial>>

\* The scheduler persists the state the call returned, if the graph declares
\* that transition.
Commit(j) ==
    /\ attempt[j].pc = "returned"
    /\ <<fan_outs[j].state, attempt[j].result>> \in Transitions
    /\ fan_outs' = [fan_outs EXCEPT ![j].state = attempt[j].result]
    /\ attempt' = [attempt EXCEPT ![j] = [@ EXCEPT !.pc = "committed"]]
    /\ UNCHANGED <<posts, outbound_follows, timeline, requests, timeline_initial>>

\* The worker running the call dies: the call ends with no result, whatever it
\* did so far stays done.
Crash(j) ==
    /\ Running(j) \/ attempt[j].pc = "returned"
    /\ attempt' = [attempt EXCEPT ![j] = [Idle EXCEPT !.pc = "crashed", !.n = attempt[j].n, !.done = attempt[j].done]]
    /\ UNCHANGED <<fan_outs, posts, outbound_follows, timeline, requests, timeline_initial>>

\* ---------------------------------------------------------------- specification

\* The timeline rows that exist whatever the run: other recipients, other
\* posts, other interactions.
FrameEvents ==
    {PostEvent("bob", "P1"), MentionedEvent("bob", "P1"), InteractionEvent("bob", "I1"),
     PostEvent("alice", "P2"), InteractionEvent("alice", "I2")}

\* The rows about the job's own recipient and subject that may exist beforehand.
OwnEvents ==
    {PostEvent("alice", "P1"), MentionedEvent("alice", "P1"), InteractionEvent("alice", "I1")}

\* Post.in_reply_to: no reference, a blank one, or the uri of the post replied to.
Replies == {None, "", "https://remote.example/posts/0"}

\* The stored data before any dispatch: post P1 with some author, reply
\* reference and mentions; alice following some identities; the frame rows and
\* some of the own rows in the timeline; no request issued.
InitWorld(authors, mention_sets, follow_sets, own_sets) ==
    /\ \E author \in authors, reply \in Replies, mentions \in mention_sets :
          posts = [p \in Posts |->
                     IF p = "P1"
                     THEN [author |-> author, in_reply_to |-> reply, mentions |-> mentions]
                     ELSE [author |-> "bob", in_reply_to |-> None, mentions |-> {}]]
    /\ \E followed \in follow_sets :
          outbound_follows = [i \in Identities |-> IF i = "alice" THEN followed ELSE {}]
    /\ \E own \in own_sets :
          timeline = [e \in Events |-> IF e \in FrameEvents \cup own THEN 1 ELSE 0]
    /\ timeline_initial = timeline
    /\ requests = <<>>

\* No fan-out job yet.
Init ==
    /\ InitWorld({"bob", "carol"}, {{}, {"alice", "bob"}}, {{}, {"bob"}}, SUBSET OwnEvents)
    /\ fan_outs = <<>>
    /\ attempt = <<>>

Next ==
    \/ Create(FanOutRows)
    \/ \E j \in JobIds : Invoke(j)
    \/ \E j \in JobIds : LoadSubject(j)
    \/ \E j \in JobIds : LocalPostFollowed(j)
    \/ \E j \in JobIds : LocalPostAdd(j)
    \/ \E j \in JobIds : LocalPostMentioned(j)
    \/ \E j \in JobIds : LocalPostDeleted(j)
    \/ \E j \in JobIds : LocalInteraction(j)
    \/ \E j \in JobIds : LocalUndoInteraction(j)
    \/ \E j \in JobIds : RemoteDeliver(j)
    \/ \E j \in JobIds : Commit(j)
    \/ \E j \in JobIds : Crash(j)

Spec == Init /\ [][Next]_vars

\* The local post block on its own: one post or post_edited job for alice, over
\* every author, reply reference, mention set and follow set.
LocalPostRows ==
    {row \in FanOutRows : row.type \in {"post", "post_edited"} /\ row.identity = "alice"}

InitLocalPost ==
    /\ InitWorld(Identities, SUBSET Identities, SUBSET Identities,
                 SUBSET {PostEvent("alice", "P1"), MentionedEvent("alice", "P1")})
    /\ fan_outs = <<>>
    /\ attempt = <<>>

NextLocalPost ==
    \/ Create(LocalPostRows)
    \/ \E j \in JobIds : Invoke(j)
    \/ \E j \in JobIds : LoadSubject(j)
    \/ \E j \in JobIds : LocalPostFollowed(j)
    \/ \E j \in JobIds : LocalPostAdd(j)
    \/ \E j \in JobIds : LocalPostMentioned(j)
    \/ \E j \in JobIds : Commit(j)
    \/ \E j \in JobIds : Crash(j)

SpecLocalPost == InitLocalPost /\ [][NextLocalPost]_vars

\* ---------------------------------------------------------------- retry without end

\* The exceptions a collaborator raises when its call fails: the stores'
\* fetches and writes, the serialisers, the signed transport.
CollaboratorErrors ==
    {"DoesNotExist", "DatabaseError", "SerialiseError", "RequestError"}

\* The collaborators have stopped failing by the time the call counter is at
\* its bound: from then on no call ends on a collaborator's exception and no
\* worker dies.
Settled(j) ==
    attempt'[j].n = MaxAttempts =>
        /\ attempt'[j].error.exc \notin CollaboratorErrors
        /\ attempt'[j].pc # "crashed"

\* The scheduler calls handle_new again for a job that is still new, however
\* many calls were made before: the call counter stays at its bound.
InvokeAgain(j) ==
    /\ fan_outs[j].state = "new"
    /\ attempt[j].pc \in {"raised", "crashed"}
    /\ attempt[j].n = MaxAttempts
    /\ \E fetched \in BOOLEAN :
        LET a      == [Idle EXCEPT !.n = MaxAttempts, !.done = attempt[j].done]
            row    == fan_outs[j]
            branch == Match(row.type, local[row.identity])
        IN  attempt' = [attempt EXCEPT ![j] =
                IF ~fetched
                THEN Failed(a, "DoesNotExist", <<>>)
                ELSE IF branch = "unclassified"
                THEN Failed(a, "ValueError", <<row.type, local[row.identity]>>)
                ELSE [a EXCEPT !.pc = "matched", !.branch = branch]]
    /\ UNCHANGED <<fan_outs, posts, outbound_follows, timeline, requests, timeline_initial>>

InitLive ==
    /\ InitWorld({"bob"}, {{}, {"alice", "bob"}}, {{}, {"bob"}}, {{}})
    /\ fan_outs = <<>>
    /\ attempt = <<>>

NextLive ==
    \/ Create(FanOutRows)
    \/ \E j \in JobIds : Invoke(j) /\ Settled(j)
    \/ \E j \in JobIds : InvokeAgain(j) /\ Settled(j)
    \/ \E j \in JobIds : LoadSubject(j) /\ Settled(j)
    \/ \E j \in JobIds : LocalPostFollowed(j) /\ Settled(j)
    \/ \E j \in JobIds : LocalPostAdd(j) /\ Settled(j)
    \/ \E j \in JobIds : LocalPostMentioned(j) /\ Settled(j)
    \/ \E j \in JobIds : LocalPostDeleted(j) /\ Settled(j)
    \/ \E j \in JobIds : LocalInteraction(j) /\ Settled(j)
    \/ \E j \in JobIds : LocalUndoInteraction(j) /\ Settled(j)
    \/ \E j \in JobIds : RemoteDeliver(j) /\ Settled(j)
    \/ \E j \in JobIds : Commit(j)
    \/ \E j \in JobIds : Crash(j) /\ Settled(j)

\* What the scheduler and the event loop do for the one job of a run when
\* nothing fails: call the handler, run it on, persist the returned state.
Progress ==
    IF 1 \in JobIds
    THEN \/ Invoke(1) /\ Settled(1)
         \/ InvokeAgain(1) /\ Settled(1)
         \/ LoadSubject(1) /\ Settled(1)
         \/ LocalPostFollowed(1) /\ Settled(1)
         \/ LocalPostAdd(1) /\ Settled(1)
         \/ LocalPostMentioned(1) /\ Settled(1)
         \/ LocalPostDeleted(1) /\ Settled(1)
         \/ LocalInteraction(1) /\ Settled(1)
         \/ LocalUndoInteraction(1) /\ Settled(1)
         \/ RemoteDeliver(1) /\ Settled(1)
         \/ Commit(1)
    ELSE FALSE

\* A fair scheduler: a job that can be called, run on or committed eventually is.
SpecLive ==
    InitLive /\ [][NextLive]_vars /\ WF_vars(Progress) /\ WF_vars(Create(FanOutRows))

\* ---------------------------------------------------------------- two jobs

\* The rows upstream code stores: a kind, a recipient, and the subject the
\* kind names.
PairRows ==
    {row \in FanOutRows :
        /\ row.type \in Types
        /\ row.subject_post = (IF row.type \in {"post", "post_edited", "post_deleted"}
                               THEN "P1" ELSE None)
        /\ row.subject_post_interaction = (IF row.type \in {"interaction", "undo_interaction"}
                                           THEN "I1" ELSE None)}

\* FanOut.objects.create for a second job of the same recipient and subject,
\* while the first may be anywhere in its dispatch: nothing orders the jobs of
\* one post or one recipient.
CreateAnother(rows) ==
    /\ Len(fan_outs) = 1
    /\ \E row \in rows :
          /\ row.identity = fan_outs[1].identity
          /\ row.subject_post = fan_outs[1].subject_post
          /\ row.subject_post_interaction = fan_outs[1].subject_post_interaction
          /\ fan_outs' = Append(fan_outs, row)
          /\ attempt' = Append(attempt, Idle)
    /\ UNCHANGED <<posts, outbound_follows, timeline, requests, timeline_initial>>

\* One world: P1 is bob's post, no reply, mentioning alice, who follows bob;
\* alice's timeline holds none or all of the rows about P1 and I1.
InitPair ==
    /\ InitWorld({"bob"}, {{"alice"}}, {{"bob"}}, {{}, OwnEvents})
    /\ posts["P1"].in_reply_to = None
    /\ fan_outs = <<>>
    /\ attempt = <<>>

NextPair ==
    \/ Create(PairRows)
    \/ CreateAnother(PairRows)
    \/ \E j \in JobIds : Invoke(j)
    \/ \E j \in JobIds : LoadSubject(j)
    \/ \E j \in JobIds : LocalPostFollowed(j)
    \/ \E j \in JobIds : LocalPostAdd(j)
    \/ \E j \in JobIds : LocalPostMentioned(j)
    \/ \E j \in JobIds : LocalPostDeleted(j)
    \/ \E j \in JobIds : LocalInteraction(j)
    \/ \E j \in JobIds : LocalUndoInteraction(j)
    \/ \E j \in JobIds : RemoteDeliver(j)
    \/ \E j \in JobIds : Commit(j)
    \/ \E j \in JobIds : Crash(j)

SpecPair == InitPair /\ [][NextPair]_vars

\* ---------------------------------------------------------------- insertions that overlap

\* The insertion the call of job j is about to make: the operation, the row and
\* the position of the call after it; op is None where the call is not at an
\* insertion.
Insertion(j) ==
    LET a         == attempt[j]
        recipient == fan_outs[j].identity
    IN  IF /\ a.pc = "follows_read"
           /\ AddDecision([posts[a.subject] EXCEPT !.mentions = a.mentioned], a.followed)
        THEN [op |-> "add_post", event |-> PostEvent(recipient, a.subject), next |-> "post_added"]
        ELSE IF a.pc = "post_added" /\ IsMentioned(recipient, a.mentioned)
        THEN [op |-> "add_mentioned", event |-> MentionedEvent(recipient, a.subject),
              next |-> "returned"]
        ELSE IF a.pc = "loaded" /\ a.branch = "local_interaction"
        THEN [op |-> "add_post_interaction", event |-> InteractionEvent(recipient, a.subject),
              next |-> "returned"]
        ELSE [op |-> None, event |-> None, next |-> None]

\* The first half of get_or_create: look for an identical row. The handler is
\* suspended in the timeline operation; other calls may run before the second
\* half.
AddEventGet(j) ==
    /\ Insertion(j).op # None
    /\ attempt[j].found = None
    /\ \E ok \in BOOLEAN :
        LET a == attempt[j]
            e == Insertion(j).event
        IN  attempt' = [attempt EXCEPT ![j] =
                IF ~ok
                THEN Failed(a, "DatabaseError", <<>>)
                ELSE [a EXCEPT !.found = IF timeline[e] > 0 THEN "found" ELSE "missing"]]
    /\ UNCHANGED <<fan_outs, posts, outbound_follows, timeline, requests, timeline_initial>>

\* AddEventCreate, were it to create a row whatever the lookup answered.
AddEventCreateAlways(j) ==
    /\ Insertion(j).op # None
    /\ attempt[j].found # None
    /\ LET a   == attempt[j]
           ins == Insertion(j)
           b   == [Did(a, ins.op, fan_outs[j].identity, a.subject) EXCEPT !.found = None]
       IN  /\ timeline' = [timeline EXCEPT ![ins.event] = @ + 1]
           /\ attempt' = [attempt EXCEPT ![j] =
                  IF ins.next = "returned" THEN Returned(b) ELSE [b EXCEPT !.pc = ins.next]]
    /\ UNCHANGED <<fan_outs, posts, outbound_follows, requests, timeline_initial>>

\* The second half of get_or_create: create the row when the lookup found none,
\* whatever the table holds by now; the timeline operation returns and the
\* handler goes on.
AddEventCreate(j) ==
    /\ Insertion(j).op # None
    /\ attempt[j].found # None
    /\ LET a   == attempt[j]
           ins == Insertion(j)
           b   == [Did(a, ins.op, fan_outs[j].identity, a.subject) EXCEPT !.found = None]
       IN  /\ timeline' = IF a.found = "missing"
                          THEN [timeline EXCEPT ![ins.event] = @ + 1]
                          ELSE timeline
           /\ attempt' = [attempt EXCEPT ![j] =
                  IF ins.next = "returned" THEN Returned(b) ELSE [b EXCEPT !.pc = ins.next]]
    /\ UNCHANGED <<fan_outs, posts, outbound_follows, requests, timeline_initial>>

\* The local post block of a post that is not added to the timeline.
LocalPostNotAdded(j) ==
    /\ Insertion(j).op = None
    /\ LocalPostAdd(j)

\* The local post block of a post that does not mention the recipient.
LocalPostNotMentioned(j) ==
    /\ Insertion(j).op = None
    /\ LocalPostMentioned(j)

\* The jobs of a local recipient: the ones that change a timeline.
OverlapRows ==
    {row \in PairRows : row.identity = "alice"}

\* P1 is bob's post, a reply or not, mentioning alice or nobody; alice follows
\* bob; her timeline holds no row about P1 or I1.
InitOverlap ==
    /\ InitWorld({"bob"}, {{}, {"alice"}}, {{"bob"}}, {{}})
    /\ posts["P1"].in_reply_to # ""
    /\ fan_outs = <<>>
    /\ attempt = <<>>

\* Two jobs of one recipient and one subject, each called at most once at a
\* time, their timeline insertions made in two steps.
NextOverlap ==
    \/ Create(OverlapRows)
    \/ CreateAnother(OverlapRows)
    \/ \E j \in JobIds : Invoke(j)
    \/ \E j \in JobIds : LoadSubject(j)
    \/ \E j \in JobIds : LocalPostFollowed(j)
    \/ \E j \in JobIds : AddEventGet(j)
    \/ \E j \in JobIds : AddEventCreate(j)
    \/ \E j \in JobIds : LocalPostNotAdded(j)
    \/ \E j \in JobIds : LocalPostNotMentioned(j)
    \/ \E j \in JobIds : LocalPostDeleted(j)
    \/ \E j \in JobIds : LocalUndoInteraction(j)
    \/ \E j \in JobIds : Commit(j)
    \/ \E j \in JobIds : Crash(j)

SpecOverlap == InitOverlap /\ [][NextOverlap]_vars

\* ---------------------------------------------------------------- properties

\* The dispatch matrix as a table: the row of a (kind, locality) pair.
MatrixRow(kind, loc) ==
    CASE kind \in {"post", "post_edited"} /\ loc -> "local_post"
      [] kind = "post" /\ ~loc -> "remote_post"
      [] kind = "post_edited" /\ ~loc -> "remote_post_edited"
      [] kind = "post_deleted" /\ loc -> "local_post_deleted"
      [] kind = "post_deleted" /\ ~loc -> "remote_post_deleted"
      [] kind = "interaction" /\ loc -> "local_interaction"
      [] kind = "interaction" /\ ~loc -> "remote_interaction"
      [] kind = "undo_interaction" /\ loc -> "local_undo_interaction"
      [] kind = "undo_interaction" /\ ~loc -> "remote_undo_interaction"
      [] OTHER -> "unclassified"

\* The operations a completed call of each row may have performed, in order.
RowBehaviours(row) ==
    CASE row = "local_post" ->
            {<<>>, <<"add_post">>, <<"add_mentioned">>, <<"add_post", "add_mentioned">>}
      [] row = "local_post_deleted" -> {<<"delete_post_events">>}
      [] row = "local_interaction" -> {<<"add_post_interaction">>}
      [] row = "local_undo_interaction" -> {<<"delete_post_interaction">>}
      [] row \in RemoteBranches -> {<<"signed_request">>}
      [] OTHER -> {}

Ops(a) ==
    [k \in DOMAIN a.effects |-> a.effects[k].op]

\* The subject a kind refers to, and the document and signer the matrix names
\* for a remote recipient.
KindSubject(job) ==
    IF job.type \in {"post", "post_edited", "post_deleted"}
    THEN job.subject_post
    ELSE job.subject_post_interaction

KindDocument(kind) ==
    CASE kind = "post" -> "to_create_ap"
      [] kind = "post_edited" -> "to_update_ap"
      [] kind = "post_deleted" -> "to_delete_ap"
      [] kind = "interaction" -> "to_ap"
      [] kind = "undo_interaction" -> "to_undo_ap"

KindBody(job) ==
    [canonical |-> TRUE,
     document |-> [built_by |-> KindDocument(job.type), subject |-> KindSubject(job)]]

KindSigner(job) ==
    IF job.type \in {"post", "post_edited", "post_deleted"}
    THEN posts[job.subject_post].author
    ELSE interaction_identity[job.subject_post_interaction]

Remote(j) ==
    fan_outs[j].type \in Types /\ ~local[fan_outs[j].identity]

\* The requests the current (or last) call for job j issued.
RequestsOfCall(j) ==
    {k \in DOMAIN requests : requests[k].job = j /\ requests[k].attempt = attempt[j].n}

\* C1: a job is new or sent; the only change of state any step makes is
\* new -> sent, made only for a call that ran to its return without a failed
\* step and returned sent; a sent job never becomes new again.
C1_OnlyNewToSent ==
    [][\A j \in JobIds :
          /\ fan_outs[j].state \in States
          /\ fan_outs'[j].state # fan_outs[j].state =>
                /\ fan_outs[j].state = "new"
                /\ fan_outs'[j].state = "sent"
                /\ attempt[j].pc = "returned"
                /\ attempt[j].result = "sent"
                /\ ~attempt[j].fault]_vars

\* A job that reached sent on its second call, after a first call that failed.
C1_Witness ==
    \E j \in JobIds : fan_outs[j].state = "sent" /\ attempt[j].n = 2

\* C2: when a step of a call failed, the call ended by raising: it holds an
\* exception, returned nothing, and the job is still new.
C2_FailureRaises ==
    \A j \in JobIds :
        attempt[j].fault =>
            /\ attempt[j].pc = "raised"
            /\ attempt[j].error.exc # "none"
            /\ attempt[j].result = None
            /\ fan_outs[j].state = "new"

\* A call whose signed request failed, after the subject was loaded.
C2_Witness ==
    \E j \in JobIds :
        /\ attempt[j].fault
        /\ attempt[j].error.exc = "RequestError"
        /\ fan_outs[j].state = "new"

\* C3: a job with a remote recipient that returned sent, or is sent, has a
\* successful signed request of its own document to the recipient's inbox; and
\* the call that returned sent is the one that issued a successful request.
C3_SentImpliesDelivered ==
    \A j \in JobIds :
        Remote(j) =>
            /\ (fan_outs[j].state = "sent" \/ attempt[j].pc = "returned") =>
                  \E k \in DOMAIN requests :
                      /\ requests[k].job = j
                      /\ requests[k].ok
                      /\ requests[k].uri = inbox_uri[fan_outs[j].identity]
                      /\ requests[k].body = KindBody(fan_outs[j])
            /\ attempt[j].pc \in {"returned", "committed"} =>
                  \E k \in RequestsOfCall(j) : requests[k].ok

\* A remote job sent on its second call, the first call's request having failed.
C3_Witness ==
    \E j \in JobIds :
        /\ Remote(j)
        /\ fan_outs[j].state = "sent"
        /\ Len(requests) = 2
        /\ ~requests[1].ok

\* C4: every (kind, locality) pair matches at most one pattern and is given its
\* matrix row; a call past classification runs the row of its job, a completed
\* call performed that row's operations and no others, and a pair with no row
\* raises ValueError carrying the kind and the locality.
C4_OneBranchPerPair ==
    /\ \A kind \in Types \cup {UnknownType}, loc \in BOOLEAN :
          /\ Cardinality(MatchingCases(kind, loc)) <= 1
          /\ Match(kind, loc) = MatrixRow(kind, loc)
    /\ \A j \in JobIds :
          LET row == MatrixRow(fan_outs[j].type, local[fan_outs[j].identity])
          IN  /\ attempt[j].pc \in {"matched", "loaded", "follows_read", "post_added", "returned", "committed"} =>
                    attempt[j].branch = row /\ row # "unclassified"
              /\ attempt[j].pc \in {"returned", "committed"} =>
                    Ops(attempt[j]) \in RowBehaviours(row)
              /\ (row = "unclassified" /\ attempt[j].pc = "raised"
                      /\ attempt[j].error.exc # "DoesNotExist") =>
                    attempt[j].error =
                        [exc |-> "ValueError",
                         args |-> <<fan_outs[j].type, local[fan_outs[j].identity]>>]

\* A job whose type is none of the five kinds, raised as unclassified.
C4_Witness ==
    \E j \in JobIds :
        /\ fan_outs[j].type = UnknownType
        /\ attempt[j].pc = "raised"
        /\ attempt[j].error.exc = "ValueError"
        /\ attempt[j].error.args = <<UnknownType, FALSE>>

LocalPostJob(j) ==
    fan_outs[j].type \in {"post", "post_edited"} /\ local[fan_outs[j].identity]

Performed(a, op, i, subject) ==
    \E k \in DOMAIN a.effects : a.effects[k] = Effect(op, i, subject)

\* A post is a reply when it carries a reference to the post it answers.
IsReply(post) ==
    post.in_reply_to \notin {None, ""}

\* The reply filter as the matrix states it: a post that is not a reply is
\* shown; a reply is shown when its author is followed and some mentioned
\* identity is followed.
Shown(post, followed) ==
    \/ ~IsReply(post)
    \/ /\ post.author \in followed
       /\ \E m \in post.mentions : m \in followed

\* C5: a completed call for a local post or post_edited job added the post
\* event of (recipient, post) exactly when the reply filter shows the post; the
\* row then exists, and otherwise is as it was before the dispatch.
C5_ReplyFilter ==
    \A j \in JobIds :
        (LocalPostJob(j) /\ attempt[j].pc \in {"returned", "committed"}) =>
            LET R     == fan_outs[j].identity
                P     == fan_outs[j].subject_post
                shown == Shown(posts[P], outbound_follows[R])
            IN  /\ Performed(attempt[j], "add_post", R, P) <=> shown
                /\ shown => timeline[PostEvent(R, P)] = 1
                /\ ~shown => timeline[PostEvent(R, P)] = timeline_initial[PostEvent(R, P)]

\* A reply whose author and one mentioned identity alice follows, inserted
\* into a timeline that did not hold it.
C5_Witness ==
    \E j \in JobIds :
        /\ LocalPostJob(j)
        /\ attempt[j].pc = "returned"
        /\ IsReply(posts["P1"])
        /\ posts["P1"].author = "bob"
        /\ posts["P1"].mentions = {"carol", "alice"}
        /\ outbound_follows["alice"] = {"bob", "carol"}
        /\ timeline_initial[PostEvent("alice", "P1")] = 0
        /\ timeline[PostEvent("alice", "P1")] = 1

\* C6: a completed call for a local post or post_edited job added the
\* mentioned event of (recipient, post) exactly when the recipient is in the
\* post's mentions, whatever the reply filter decided.
C6_MentionedIndependent ==
    \A j \in JobIds :
        (LocalPostJob(j) /\ attempt[j].pc \in {"returned", "committed"}) =>
            LET R == fan_outs[j].identity
                P == fan_outs[j].subject_post
            IN  /\ Performed(attempt[j], "add_mentioned", R, P) <=> R \in posts[P].mentions
                /\ R \in posts[P].mentions => timeline[MentionedEvent(R, P)] = 1
                /\ R \notin posts[P].mentions =>
                      timeline[MentionedEvent(R, P)] = timeline_initial[MentionedEvent(R, P)]

\* alice is mentioned by a reply and follows nobody: the mentioned event is
\* added, the post event is not.
C6_Witness ==
    \E j \in JobIds :
        /\ LocalPostJob(j)
        /\ attempt[j].pc = "returned"
        /\ IsReply(posts["P1"])
        /\ "alice" \in posts["P1"].mentions
        /\ outbound_follows["alice"] = {}
        /\ Ops(attempt[j]) = <<"add_mentioned">>
        /\ timeline_initial[MentionedEvent("alice", "P1")] = 0
        /\ timeline[MentionedEvent("alice", "P1")] = 1
        /\ timeline[PostEvent("alice", "P1")] = 0

\* C7: the step in which a local post_deleted call performs its deletion
\* leaves no timeline row of (recipient, post), of any type, and leaves the
\* count of every other row as it was.
C7_DeleteOwnOnly ==
    [][\A j \in JobIds :
          (/\ attempt[j].pc = "loaded"
           /\ attempt[j].branch = "local_post_deleted"
           /\ attempt'[j].pc = "returned") =>
              \A e \in Events :
                  timeline'[e] =
                      IF e.identity = fan_outs[j].identity
                            /\ e.subject_post = fan_outs[j].subject_post
                      THEN 0
                      ELSE timeline[e]]_vars

\* A deletion that removed both the post and the mentioned event of
\* (alice, P1) and left the rows of bob and of P2 and I2.
C7_Witness ==
    \E j \in JobIds :
        /\ fan_outs[j].type = "post_deleted"
        /\ attempt[j].pc = "returned"
        /\ timeline_initial[PostEvent("alice", "P1")] = 1
        /\ timeline_initial[MentionedEvent("alice", "P1")] = 1
        /\ timeline[PostEvent("alice", "P1")] = 0
        /\ timeline[MentionedEvent("alice", "P1")] = 0
        /\ \A e \in FrameEvents : timeline[e] = 1

\* The timeline one successful dispatch of a local job leaves, from the
\* timeline before it.
AfterOneDispatch(tl, job) ==
    LET R == job.identity
        S == KindSubject(job)
    IN  [e \in Events |->
            CASE job.type \in {"post", "post_edited"} /\ e = PostEvent(R, S)
                    /\ Shown(posts[S], outbound_follows[R]) -> 1
              [] job.type \in {"post", "post_edited"} /\ e = MentionedEvent(R, S)
                    /\ R \in posts[S].mentions -> 1
              [] job.type = "post_deleted" /\ e.identity = R /\ e.subject_post = S -> 0
              [] job.type = "interaction" /\ e = InteractionEvent(R, S) -> 1
              [] job.type = "undo_interaction" /\ e = InteractionEvent(R, S) -> 0
              [] OTHER -> tl[e]]

\* C8: whenever a call for a local job has completed, after any number of
\* earlier calls that failed or died part way, the timeline is the one a single
\* successful dispatch leaves: no row is duplicated, no deletion undone.
C8_TimelineIdempotent ==
    \A j \in JobIds :
        (/\ fan_outs[j].type \in Types
         /\ local[fan_outs[j].identity]
         /\ attempt[j].pc \in {"returned", "committed"}) =>
            timeline = AfterOneDispatch(timeline_initial, fan_outs[j])

\* A second call that completed after the first one had already performed a
\* timeline operation.
C8_Witness ==
    \E j \in JobIds :
        /\ local[fan_outs[j].identity]
        /\ attempt[j].pc = "returned"
        /\ attempt[j].n = 2
        /\ Len(attempt[j].effects) > 0
        /\ attempt[j].done > Len(attempt[j].effects)

\* C9: every job has exactly one of its two subject columns set, the one its
\* kind names.
C9_SubjectMatchesKind ==
    \A j \in JobIds :
        /\ fan_outs[j].type \in {"post", "post_edited", "post_deleted"} =>
              fan_outs[j].subject_post # None /\ fan_outs[j].subject_post_interaction = None
        /\ fan_outs[j].type \in {"interaction", "undo_interaction"} =>
              fan_outs[j].subject_post = None /\ fan_outs[j].subject_post_interaction # None
        /\ fan_outs[j].type \in Types

RequestByKind(j, r) ==
    /\ r.method = "post"
    /\ r.uri = inbox_uri[fan_outs[j].identity]
    /\ r.body = KindBody(fan_outs[j])
    /\ r.signer = KindSigner(fan_outs[j])

\* C10 as stated: every call for a job with a remote recipient (and the subject
\* of its kind) that has ended issued exactly one signed request, the one its
\* kind names.
C10_ExactlyOnePerCall ==
    \A j \in JobIds :
        (Remote(j) /\ KindSubject(fan_outs[j]) # None
               /\ attempt[j].pc \in {"raised", "returned", "committed"}) =>
            /\ Cardinality(RequestsOfCall(j)) = 1
            /\ \A k \in RequestsOfCall(j) : RequestByKind(j, requests[k])

\* C10 amended: a call for a job with a remote recipient issues at most one
\* signed request, exactly one when it returns sent or ends on the request's own
\* failure, and every request issued is the one the job's kind names.
C10_AtMostOneByKind ==
    \A j \in JobIds :
        Remote(j) =>
            /\ Cardinality(RequestsOfCall(j)) <= 1
            /\ (\/ attempt[j].pc \in {"returned", "committed"}
                \/ attempt[j].error.exc = "RequestError") =>
                  Cardinality(RequestsOfCall(j)) = 1
            /\ \A k \in DOMAIN requests :
                  requests[k].job = j => RequestByKind(j, requests[k])

\* An interaction delivered to carol's inbox, signed by the interacting
\* identity and not by the post's author.
C10_Witness ==
    \E j \in JobIds :
        /\ fan_outs[j].type = "interaction"
        /\ fan_outs[j].identity = "carol"
        /\ attempt[j].pc = "returned"
        /\ posts["P1"].author = "carol"
        /\ Len(requests) = 1
        /\ requests[1].signer = "bob"
        /\ requests[1].uri = inbox_uri["carol"]
        /\ requests[1].body.document.built_by = "to_ap"

\* The job of a run has been created, and with what.
Created(rows) ==
    IF 1 \in JobIds THEN fan_outs[1] \in rows ELSE FALSE

IsSent ==
    IF 1 \in JobIds THEN fan_outs[1].state = "sent" ELSE FALSE

\* C11: under a fair scheduler, once the collaborators have stopped failing,
\* every job whose (kind, locality) pair is classified eventually is sent.
C11_ClassifiedEventuallySent ==
    Created({row \in FanOutRows : row.type \in Types}) ~> IsSent

\* The same for the jobs that carry the subject their kind names: these are
\* sent, the reply that is filtered out and mentions nobody included.
WellFormedEventuallySent ==
    Created({row \in FanOutRows : row.type \in Types /\ KindSubject(row) # None}) ~> IsSent

\* C12: in every step from a state in which a job is sent, the job stays sent,
\* no call is started or run on for it (its call record, with the operations it
\* performed, is unchanged) and no request issued in the step is the job's.
C12_SentNeverDispatched ==
    [][\A j \in JobIds :
          fan_outs[j].state = "sent" =>
              /\ fan_outs'[j].state = "sent"
              /\ attempt'[j] = attempt[j]
              /\ \A k \in DOMAIN requests' :
                    k > Len(requests) => requests'[k].job # j]_vars

\* The first job is sent; the second, for the same recipient, has since been
\* called twice and has changed the timeline.
C12_Witness ==
    /\ Len(fan_outs) = 2
    /\ fan_outs[1].state = "sent"
    /\ attempt[1].n = 1
    /\ fan_outs[2].identity = fan_outs[1].identity
    /\ attempt[2].n = 2
    /\ attempt[2].pc = "returned"
    /\ timeline # timeline_initial

Unclassified(j) ==
    fan_outs[j].type \notin Types

\* C13 as stated: every call for a job whose pair is in no row of the matrix
\* ends with the unclassified-activity error.
C13_AlwaysUnclassifiedActivity ==
    \A j \in JobIds :
        (Unclassified(j) /\ attempt[j].pc \notin {"idle"}) =>
            /\ attempt[j].pc = "raised"
            /\ attempt[j].error.exc = "ValueError"

\* C13 amended: every call for such a job raises, with ValueError naming the
\* pair, or with the fetch's own exception when the job cannot be loaded; no
\* call performs a timeline operation or issues a request, the job is new in
\* every state, and after every failed call the job can be called again.
C13_UnclassifiedNeverDispatched ==
    \A j \in JobIds :
        Unclassified(j) =>
            /\ fan_outs[j].state = "new"
            /\ attempt[j].pc \in {"idle", "raised"}
            /\ attempt[j].pc = "raised" =>
                  \/ attempt[j].error =
                        [exc |-> "ValueError",
                         args |-> <<fan_outs[j].type, local[fan_outs[j].identity]>>]
                  \/ attempt[j].error = [exc |-> "DoesNotExist", args |-> <<>>]
            /\ attempt[j].effects = <<>>
            /\ attempt[j].done = 0
            /\ timeline = timeline_initial
            /\ requests = <<>>
            /\ attempt[j].pc = "raised" => ENABLED (Invoke(j) \/ InvokeAgain(j))

\* A job of an unknown type, called again after a failed call, whose latest
\* call raised the unclassified error naming its type and locality.
C13_Witness ==
    \E j \in JobIds :
        /\ Unclassified(j)
        /\ attempt[j].n = MaxAttempts
        /\ attempt[j].pc = "raised"
        /\ attempt[j].error.exc = "ValueError"
        /\ attempt[j].error.args = <<UnknownType, TRUE>>

\* The jobs whose dispatch inserts the timeline row e.
InsertersOf(e) ==
    {j \in JobIds :
        /\ e.identity = fan_outs[j].identity
        /\ \/ /\ fan_outs[j].type \in {"post", "post_edited"}
              /\ e.type \in {"post", "mentioned"}
              /\ e.subject_post = fan_outs[j].subject_post
           \/ /\ fan_outs[j].type = "interaction"
              /\ e.type = "interaction"
              /\ e.subject_post_interaction = fan_outs[j].subject_post_interaction}

\* C14: each job being called at most once at a time, whatever the retries of
\* a job and however its calls interleave with another job's, the timeline
\* never holds two rows for one (recipient, subject, reason).
C14_NoDuplicateEvent ==
    \A e \in Events : timeline[e] <= 1

\* C14, amended: each job being called at most once at a time, the calls of one
\* job never leave two rows for one (recipient, subject, reason), however often
\* the job is retried and whatever deletions run in between; a row has more
\* copies only when several jobs insert it, and never more copies than it has
\* such jobs.
C14_DuplicateOnlyAcrossJobs ==
    \A e \in Events :
        timeline[e] > 1 => timeline[e] <= Cardinality(InsertersOf(e))

\* A post job and a post_edited job for the same recipient and post, each
\* called once and completed: both looked for the post row before either
\* created it, and the recipient's timeline holds the post twice.
C14_Witness ==
    /\ Len(fan_outs) = 2
    /\ fan_outs[1].type = "post" /\ fan_outs[2].type = "post_edited"
    /\ \A j \in JobIds :
          /\ attempt[j].pc \in {"returned", "committed"}
          /\ attempt[j].n = 1
    /\ timeline_initial[PostEvent("alice", "P1")] = 0
    /\ timeline[PostEvent("alice", "P1")] = 2

\* The documents delivered to an inbox, in the order of their delivery.
RECURSIVE Delivered(_, _)
Delivered(log, uri) ==
    IF log = <<>>
    THEN <<>>
    ELSE LET r    == log[Len(log)]
             rest == Delivered(SubSeq(log, 1, Len(log) - 1), uri)
         IN  IF r.ok /\ r.uri = uri THEN Append(rest, r.body.document.built_by) ELSE rest

\* C15: nothing orders the deliveries of two jobs: a call that has loaded its
\* subject for a remote recipient can issue its request whatever the other
\* job's state, and every request in the log is the document of its own job's
\* kind, wherever in the log it stands.
C15_NoCrossJobOrder ==
    /\ \A j \in JobIds :
          (attempt[j].pc = "loaded" /\ attempt[j].branch \in RemoteBranches) =>
              ENABLED RemoteDeliver(j)
    /\ \A k \in DOMAIN requests : RequestByKind(requests[k].job, requests[k])

\* The post job was created first, the post_edited job second, both for P1 and
\* carol: carol's inbox received the update document before the create document.
C15_Witness ==
    /\ Len(fan_outs) = 2
    /\ fan_outs[1].type = "post" /\ fan_outs[2].type = "post_edited"
    /\ fan_outs[1].identity = "carol" /\ fan_outs[2].identity = "carol"
    /\ fan_outs[1].subject_post = fan_outs[2].subject_post
    /\ Delivered(requests, inbox_uri["carol"]) = <<"to_update_ap", "to_create_ap">>

\* The same two jobs, the create document delivered before the update document.
CreateDeliveredFirst ==
    /\ Len(fan_outs) = 2
    /\ fan_outs[1].type = "post" /\ fan_outs[2].type = "post_edited"
    /\ fan_outs[1].identity = "carol" /\ fan_outs[2].identity = "carol"
    /\ fan_outs[1].subject_post = fan_outs[2].subject_post
    /\ Delivered(requests, inbox_uri["carol"]) = <<"to_create_ap", "to_update_ap">>

\* The requests of job j that reached the recipient's inbox.
DeliveriesOf(j) ==
    {k \in DOMAIN requests : requests[k].job = j /\ requests[k].ok}

\* C16: however often a job with a remote recipient is called, a call that is
\* made again after its request was delivered and before the state was
\* persisted included, the inbox receives the job's document at most once.
C16_NoDuplicateDelivery ==
    \A j \in JobIds :
        (Remote(j) /\ fan_outs[j] \in PairRows) => Cardinality(DeliveriesOf(j)) <= 1

\* The (kind, locality) pairs some pattern of the match statement accepts.
DefinedPairs ==
    {p \in Types \X BOOLEAN : MatchingCases(p[1], p[2]) # {}}

Completed(j) ==
    attempt[j].pc \in {"returned", "committed"}

\* C17 as stated: the match statement that dispatched a job of one of the five
\* kinds defines exactly 8 of the 10 (kind, locality) pairs.
C17_ExactlyEightDefined ==
    \A j \in JobIds :
        (fan_outs[j].type \in Types /\ Completed(j)) => Cardinality(DefinedPairs) = 8

\* C17 amended: all 10 pairs are defined, none is left over: no call for a job
\* of one of the five kinds raises the unclassified error, and a call that got
\* past classification runs the block of its pair.
C17_AllTenDefined ==
    /\ Cardinality(DefinedPairs) = 10
    /\ \A j \in JobIds :
          fan_outs[j].type \in Types =>
              /\ attempt[j].error.exc # "ValueError"
              /\ attempt[j].pc \in {"matched", "loaded", "follows_read", "post_added", "returned", "committed"} =>
                    /\ attempt[j].branch # "unclassified"
                    /\ attempt[j].branch = MatrixRow(fan_outs[j].type, local[fan_outs[j].identity])

\* An undo_interaction job for a local recipient, classified and run to its return.
C17_Witness ==
    \E j \in JobIds :
        /\ fan_outs[j].type = "undo_interaction"
        /\ local[fan_outs[j].identity]
        /\ attempt[j].pc = "returned"
        /\ attempt[j].branch = "local_undo_interaction"
        /\ Ops(attempt[j]) = <<"delete_post_interaction">>

\* C18: a step of a call for a job with a local recipient issues no request,
\* a step of a call for a job with a remote recipient leaves the timeline as it
\* is, and every timeline row a step changes is a row of the job's recipient;
\* the operations a call records are those of its side of the matrix.
C18_LocalitySeparatesEffects ==
    [][\A j \in JobIds :
          attempt'[j] # attempt[j] =>
              /\ local[fan_outs[j].identity] => requests' = requests
              /\ ~local[fan_outs[j].identity] => timeline' = timeline
              /\ \A e \in Events :
                    timeline'[e] # timeline[e] => e.identity = fan_outs[j].identity
              /\ \A k \in DOMAIN attempt'[j].effects :
                    /\ attempt'[j].effects[k].identity = fan_outs[j].identity
                    /\ attempt'[j].effects[k].op = "signed_request"
                          <=> ~local[fan_outs[j].identity]]_vars

\* A completed local post call that added both of alice's rows for P1 and
\* issued no request.
C18_Witness ==
    \E j \in JobIds :
        /\ fan_outs[j].type = "post"
        /\ fan_outs[j].identity = "alice"
        /\ attempt[j].pc = "returned"
        /\ Ops(attempt[j]) = <<"add_post", "add_mentioned">>
        /\ timeline_initial[PostEvent("alice", "P1")] = 0
        /\ timeline[PostEvent("alice", "P1")] = 1
        /\ \A e \in FrameEvents : timeline[e] = timeline_initial[e]
        /\ requests = <<>>

LocalDeleteJob(j) ==
    fan_outs[j].type = "post_deleted" /\ local[fan_outs[j].identity]
        /\ fan_outs[j].subject_post # None

\* The timeline rows of job j's recipient and post.
RowsOf(j) ==
    {e \in Events :
        e.identity = fan_outs[j].identity /\ e.subject_post = fan_outs[j].subject_post}

\* C19 as stated: once a post_deleted job for a local recipient is sent, the
\* recipient's timeline holds no row of the post.
C19_DeletedStaysDeleted ==
    \A j \in JobIds :
        (LocalDeleteJob(j) /\ fan_outs[j].state = "sent") =>
            \A e \in RowsOf(j) : timeline[e] = 0

\* C19 amended: once a call of a post_deleted job for a local recipient has
\* completed, the recipient's timeline holds a row of the post only if a post
\* or post_edited job for the same recipient and post has inserted.
C19_DeletedUntilReinserted ==
    \A j \in JobIds :
        (LocalDeleteJob(j) /\ Completed(j)) =>
            \A e \in RowsOf(j) :
                timeline[e] > 0 =>
                    \E i \in JobIds \ {j} :
                        /\ LocalPostJob(i)
                        /\ fan_outs[i].identity = fan_outs[j].identity
                        /\ fan_outs[i].subject_post = fan_outs[j].subject_post
                        /\ attempt[i].done > 0

\* The post job was created first and dispatched last: the post_deleted job is
\* sent after one call that deleted, and the post row is in the timeline.
C19_Witness ==
    /\ Len(fan_outs) = 2
    /\ fan_outs[1].type = "post" /\ fan_outs[1].identity = "alice"
    /\ LocalDeleteJob(2) /\ fan_outs[2].identity = "alice"
    /\ fan_outs[2].state = "sent"
    /\ attempt[2].n = 1
    /\ attempt[1].pc = "returned"
    /\ timeline_initial[PostEvent("alice", "P1")] = 1
    /\ timeline[PostEvent("alice", "P1")] = 1

\* Job i is the interaction job and job j the undo_interaction job of one local
\* recipient and one interaction.
InteractionAndUndo(i, j) ==
    /\ fan_outs[i].type = "interaction"
    /\ fan_outs[j].type = "undo_interaction"
    /\ local[fan_outs[i].identity]
    /\ fan_outs[j].identity = fan_outs[i].identity
    /\ fan_outs[i].subject_post_interaction # None
    /\ fan_outs[j].subject_post_interaction = fan_outs[i].subject_post_interaction

\* C20: with no row for (R, I) beforehand and the interaction job for (R, I)
\* sent, the step in which a call of the undo_interaction job for (R, I)
\* completes leaves the whole timeline as it was before both jobs.
C20_InteractionRoundTrip ==
    [][\A i \in JobIds, j \in JobIds :
          (/\ InteractionAndUndo(i, j)
           /\ timeline_initial[InteractionEvent(fan_outs[i].identity,
                                                fan_outs[i].subject_post_interaction)] = 0
           /\ fan_outs[i].state = "sent"
           /\ attempt[j].pc = "loaded"
           /\ attempt'[j].pc = "returned") =>
              timeline' = timeline_initial]_vars

\* The interaction job inserted alice's row for I1 and is sent; the
\* undo_interaction job, called afterwards, has completed and the row is gone.
C20_Witness ==
    /\ Len(fan_outs) = 2
    /\ InteractionAndUndo(1, 2)
    /\ timeline_initial[InteractionEvent("alice", "I1")] = 0
    /\ fan_outs[1].state = "sent"
    /\ Ops(attempt[1]) = <<"add_post_interaction">>
    /\ attempt[2].n = 1
    /\ attempt[2].pc = "returned"
    /\ Ops(attempt[2]) = <<"delete_post_interaction">>
    /\ timeline = timeline_initial

====
